---------------------------- MODULE Spec2Model ----------------------------
(***************************************************************************)
(* Model of gatsby-plugin-automatic-importer (gatsby-node.mjs).            *)
(*                                                                         *)
(* A text is a sequence of tokens.  Every token stands for one character   *)
(* of the file, except for a few lexemes that the code never looks inside  *)
(* and that the modelled files never split: "import", "from", "export",    *)
(* "export let ", "f()", "// c", "./", the output module's names, the      *)
(* path of an imported file and the three conflict markers.  "../" is the  *)
(* two tokens "." and "./", so that '../imports.js' contains               *)
(* './imports.js' as it does character by character.  The string           *)
(* operations of the code (indexOf, substring, trim, startsWith, includes  *)
(* and the two regular expressions) are modelled on these sequences with   *)
(* JavaScript's 0-based indices.                                           *)
(***************************************************************************)
EXTENDS Integers, Sequences, FiniteSets, TLC

SP == " "
NL == "\n"
QT == "'"
SEMI == ";"

IsWs(t) == t \in {SP, NL}
IsQuote(t) == t \in {"'", "\""}

(* ------------------------- String primitives ------------------------- *)

\* String.prototype.substring(a, b) for 0 <= a, with b clamped to the length.
Substring(s, a, b) ==
    LET e == IF b > Len(s) THEN Len(s) ELSE b
    IN  IF a >= e THEN <<>> ELSE SubSeq(s, a + 1, e)

\* String.prototype.substring(a)
SubstringFrom(s, a) == Substring(s, a, Len(s))

\* String.prototype.indexOf(tok, from): 0-based index of the first
\* occurrence at or after `from`, or -1.
IndexOfFrom(s, tok, from) ==
    LET hits == {i \in 0..(Len(s) - 1) : i >= from /\ s[i + 1] = tok}
    IN  IF hits = {} THEN -1
        ELSE CHOOSE i \in hits : \A j \in hits : i <= j

IndexOf(s, tok) == IndexOfFrom(s, tok, 0)

\* String.prototype.includes(sub)
Includes(s, sub) ==
    \E i \in 0..(Len(s) - Len(sub)) : Substring(s, i, i + Len(sub)) = sub

\* String.prototype.startsWith(tok) for a one-token prefix
StartsWith(s, tok) == Len(s) >= 1 /\ s[1] = tok

\* Number of leading / trailing whitespace tokens
LeadWs(s) ==
    LET non == {i \in 1..Len(s) : ~IsWs(s[i])}
    IN  IF non = {} THEN Len(s)
        ELSE (CHOOSE i \in non : \A j \in non : i <= j) - 1

TrailWs(s) ==
    LET non == {i \in 1..Len(s) : ~IsWs(s[i])}
    IN  IF non = {} THEN Len(s)
        ELSE Len(s) - (CHOOSE i \in non : \A j \in non : i >= j)

TrimStart(s) == SubstringFrom(s, LeadWs(s))
TrimEnd(s) == Substring(s, 0, Len(s) - TrailWs(s))
Trim(s) == TrimEnd(TrimStart(s))

\* Array.prototype.join(', ') on a sequence of identifiers
RECURSIVE Join(_)
Join(ids) ==
    IF Len(ids) = 0 THEN <<>>
    ELSE IF Len(ids) = 1 THEN <<ids[1]>>
    ELSE <<ids[1], ",", SP>> \o Join(Tail(ids))

\* '../'.repeat(n) for n >= 0
RECURSIVE RepeatUp(_)
RepeatUp(n) == IF n <= 0 THEN <<>> ELSE <<".", "./">> \o RepeatUp(n - 1)


(* ----------------------- Statement text utilities -------------------- *)

HEAD == "<<<<<<< HEAD"
MID == "======="
TAILMARK == ">>>>>>>"

OutputFile == "imports.js"
PreviousFile == "old.js"

\* regexStartsWithImport = /^\s*import\s*{/i
RegexStartsWithImport(code) ==
    LET a == LeadWs(code)
        r == SubstringFrom(code, a)
    IN  /\ StartsWith(r, "import")
        /\ StartsWith(SubstringFrom(r, 1 + LeadWs(Tail(r))), "{")

getFirstCodeLine(code) ==
    LET firstLine == IndexOf(code, SEMI)
    IN  Trim(IF firstLine >= 0 THEN Substring(code, 0, firstLine) ELSE code)

getFirstImportStatement(code) ==
    IF ~RegexStartsWithImport(code) THEN <<>>
    ELSE Substring(code, 0, IndexOf(code, SEMI) + 1)

\* possibleImportLines: "./<name>';" for the output name (unless it is
\* null) and for every previous output name.
possibleImportLines(outputEnabled) ==
    (IF outputEnabled THEN {<<"./", OutputFile, QT, SEMI>>} ELSE {})
        \cup {<<"./", PreviousFile, QT, SEMI>>}

stringIncludesAny(string, substrings) ==
    \E sub \in substrings : Includes(string, sub)

\* As containsOurImportStatement, with the names left out of the lines
\* looked for: any statement that ends in a quote and a semicolon is taken
containsAnyImportStatement(code, outputEnabled) ==
    Includes(code, <<QT, SEMI>>)

containsOurImportStatement(code, outputEnabled) ==
    stringIncludesAny(code, possibleImportLines(outputEnabled))

(* One pass of the while(changed) loop of purgeImportedFieldsCode: the    *)
(* value of `code` and of `changed` at the end of the pass.               *)
PurgeConflict(newCode, code, outputEnabled) ==
    LET headStartA == IndexOf(newCode, NL) + 1
        headEndA == IndexOfFrom(newCode, MID, headStartA)
        headA == Trim(Substring(newCode, headStartA, headEndA))
        headStartB == IndexOfFrom(newCode, NL, headEndA) + 1
        headEndB == IndexOfFrom(newCode, TAILMARK, headStartB)
        headB == Trim(Substring(newCode, headStartB, headEndB))
        headEnd == IndexOfFrom(newCode, NL, headEndB) + 1
    IN  IF /\ headStartA >= 1
           /\ headEndA >= 0
           /\ headStartB >= 1
           /\ headEndB >= 0
           /\ containsOurImportStatement(headA, outputEnabled)
           /\ containsOurImportStatement(headB, outputEnabled)
        THEN [code |-> SubstringFrom(newCode, headEnd), changed |-> TRUE]
        ELSE [code |-> code, changed |-> FALSE]

PurgePass(code, outputEnabled) ==
    LET newCode == TrimStart(code)
        firstImportStatement == getFirstImportStatement(newCode)
        importStatementEnd == IndexOfFrom(newCode, NL, Len(firstImportStatement))
    IN  IF containsOurImportStatement(firstImportStatement, outputEnabled)
        THEN [code |-> IF importStatementEnd < 0 THEN <<>>
                       ELSE SubstringFrom(newCode, importStatementEnd + 1),
              changed |-> TRUE]
        ELSE IF StartsWith(newCode, HEAD)
        THEN PurgeConflict(newCode, code, outputEnabled)
        ELSE [code |-> code, changed |-> FALSE]

(* ------------------------- regexImportReplacer ------------------------ *)
(* Group 1 is  \s* import \s* { \s* , then [^}]* , group 2 is              *)
(* [\S,] \s* } \s* from \s* quote , then .* , group 3 is quote \s* ;       *)
(* and the rest of the string.                                             *)
(* Positions are 1-based here.  The greedy [^}]* makes group 2 start at    *)
(* the last position that lets the rest match, the greedy .* makes group 3 *)
(* start at the last quote that is followed by \s*; .                      *)

\* First position >= k that holds no whitespace (Len(s) + 1 when none)
SkipWs(s, k) ==
    LET non == {i \in k..Len(s) : ~IsWs(s[i])}
    IN  IF non = {} THEN Len(s) + 1
        ELSE CHOOSE i \in non : \A j \in non : i <= j

TokAt(s, k) == IF k >= 1 /\ k <= Len(s) THEN s[k] ELSE ""

\* \s*}\s*from\s*['"] from position k: the position of the quote, or 0
ReplacerOpenQuote(s, k) ==
    LET i1 == SkipWs(s, k)
        i2 == SkipWs(s, i1 + 1)
        i3 == SkipWs(s, i2 + 1)
    IN  IF TokAt(s, i1) = "}" /\ TokAt(s, i2) = "from" /\ IsQuote(TokAt(s, i3))
        THEN i3 ELSE 0

\* ['"]\s*; after the opening quote at position o, with no line break
\* between the two quotes (the . of .* matches no line terminator)
ReplacerCloseQuotes(s, o) ==
    {q \in (o + 1)..Len(s) :
        /\ IsQuote(s[q])
        /\ \A j \in (o + 1)..(q - 1) : s[j] # NL
        /\ TokAt(s, SkipWs(s, q + 1)) = SEMI}

\* The positions x where group 2 can start
ReplacerStarts(s) ==
    LET imp == SkipWs(s, 1)
        brace == SkipWs(s, imp + 1)
    IN  IF TokAt(s, imp) = "import" /\ TokAt(s, brace) = "{"
        THEN {x \in (brace + 1)..Len(s) :
                /\ ~IsWs(s[x])
                /\ \A j \in (brace + 1)..(x - 1) : s[j] # "}"
                /\ ReplacerOpenQuote(s, x + 1) # 0
                /\ ReplacerCloseQuotes(s, ReplacerOpenQuote(s, x + 1)) # {}}
        ELSE {}

regexImportReplacerTest(s) == ReplacerStarts(s) # {}

\* The three groups of the match
regexImportReplacerGroups(s) ==
    LET brace == SkipWs(s, SkipWs(s, 1) + 1)
        xs == ReplacerStarts(s)
        x == CHOOSE i \in xs : \A j \in xs : i >= j
        o == ReplacerOpenQuote(s, x + 1)
        qs == ReplacerCloseQuotes(s, o)
        q == CHOOSE i \in qs : \A j \in qs : i >= j
    IN  [p1 |-> SubSeq(s, 1, SkipWs(s, brace + 1) - 1),
         p2 |-> SubSeq(s, x, o),
         p3 |-> SubSeq(s, q, Len(s))]

\* The replacement callback of modifyFile (lines 380-387)
ReplaceImport(firstImportStatement, importLineFields, importLineFrom) ==
    LET g == regexImportReplacerGroups(firstImportStatement)
        p2 == IF StartsWith(g.p2, ",") THEN g.p2 ELSE SubstringFrom(g.p2, 1)
    IN  g.p1 \o importLineFields \o p2 \o importLineFrom \o g.p3

(* ------------------------------ File tree ----------------------------- *)
(* The project: src/a.js, src/B.js, src/s.css, src/t.ts, pages/p.js and    *)
(* q.js.  A collected path is the configured root (after purgePath)        *)
(* followed by the names below it, so the same file is reached as          *)
(* "./pages/p.js" or as "pages/p.js" depending on how the root is written. *)

Paths == {"./src/a.js", "./src/B.js", "./src/s.css", "./src/t.ts",
          "./pages/p.js", "pages/p.js", "./q.js", "q.js"}

\* file.split('/')
Split(file) ==
    CASE file = "./src/a.js" -> <<".", "src", "a.js">>
      [] file = "./src/B.js" -> <<".", "src", "B.js">>
      [] file = "./src/s.css" -> <<".", "src", "s.css">>
      [] file = "./src/t.ts" -> <<".", "src", "t.ts">>
      [] file = "./pages/p.js" -> <<".", "pages", "p.js">>
      [] file = "pages/p.js" -> <<"pages", "p.js">>
      [] file = "./q.js" -> <<".", "q.js">>
      [] file = "q.js" -> <<"q.js">>

\* The file of the disk that a collected path names
Disk(file) ==
    CASE file \in {"./pages/p.js", "pages/p.js"} -> "p"
      [] file \in {"./q.js", "q.js"} -> "q"
      [] file = "./src/a.js" -> "a"
      [] file = "./src/B.js" -> "B"
      [] OTHER -> "none"

DiskFiles == {"a", "B", "p", "q"}

\* getAllFiles(purgePath(root)), before sorting
getAllFiles(root) ==
    CASE root = "./src" -> {"./src/a.js", "./src/B.js", "./src/s.css", "./src/t.ts"}
      [] root = "./pages" -> {"./pages/p.js"}
      [] root = "pages" -> {"pages/p.js"}
      [] root \in {"./src/a.js", "./src/B.js", "./q.js", "q.js"} -> {root}
      [] OTHER -> {}

\* String.prototype.toLowerCase on a path segment
toLowerCase(seg) == IF seg = "B.js" THEN "b.js" ELSE seg

\* The segments in the order of JavaScript's string comparison
CodeUnitOrder == <<".", "B.js", "a.js", "b.js", "p.js", "pages", "q.js",
                   "s.css", "src", "t.ts">>

CodeUnitRank(seg) == CHOOSE i \in 1..Len(CodeUnitOrder) : CodeUnitOrder[i] = seg

\* As _compareFileOrderString, without the toLowerCase
_compareFileOrderStringCaseSensitive(a, b) ==
    IF CodeUnitRank(a) > CodeUnitRank(b) THEN 1
    ELSE IF a = b THEN 0 ELSE -1

_compareFileOrderString(a, b) ==
    LET aa == toLowerCase(a)
        bb == toLowerCase(b)
    IN  IF CodeUnitRank(aa) > CodeUnitRank(bb) THEN 1
        ELSE IF aa = bb THEN 0 ELSE -1

_compareFileOrderArray(aParts, bParts) ==
    LET n == IF Len(aParts) < Len(bParts) THEN Len(aParts) ELSE Len(bParts)
        diff == {i \in 1..n : _compareFileOrderString(aParts[i], bParts[i]) # 0}
    IN  IF diff # {}
        THEN LET i == CHOOSE k \in diff : \A j \in diff : k <= j
             IN  _compareFileOrderString(aParts[i], bParts[i])
        ELSE Len(aParts) - Len(bParts)

compareFileOrder(a, b) == _compareFileOrderArray(Split(a), Split(b))

\* files.sort(compareFileOrder): the arrangement of the set in which no
\* element compares greater than a later one
Sorted(files) ==
    CHOOSE q \in [1..Cardinality(files) -> files] :
        /\ \A f \in files : \E i \in DOMAIN q : q[i] = f
        /\ \A i, j \in DOMAIN q : i < j => compareFileOrder(q[i], q[j]) <= 0

\* roots.forEach(path => getAllFiles(purgePath(path)).sort(compareFileOrder)
\*     .forEach(...)): the files in the order they are visited
RECURSIVE Collect(_)
Collect(roots) ==
    IF roots = <<>> THEN <<>>
    ELSE Sorted(getAllFiles(Head(roots))) \o Collect(Tail(roots))

\* isFileOfType(file, fileExtensionsJs) / (file, fileExtensionsOther) with
\* the default extension lists
IsJs(file) == file \notin {"./src/s.css", "./src/t.ts"}
IsOther(file) == file = "./src/s.css"

(* --------------------------- External functions ---------------------- *)

EXPORT == "export let "

\* getExportedFields once the text is purged: the names that babel reports
\* as named exports, in the order of the text.  A text that still holds a
\* conflict marker does not parse; the error is caught and [] is returned.
RECURSIVE ExportedNames(_)
ExportedNames(code) ==
    IF Len(code) < 2 THEN <<>>
    ELSE IF code[1] = EXPORT THEN <<code[2]>> \o ExportedNames(Tail(Tail(code)))
    ELSE ExportedNames(Tail(code))

getExportedFields(code) ==
    IF \E i \in 1..Len(code) : code[i] \in {HEAD, MID, TAILMARK}
    THEN <<>>
    ELSE ExportedNames(code)

\* pluginOptions.fileExtensionsCustom as in the README: an import statement
\* and the exported names for a .ts file, undefined for any other file.
CustomCode(file) == <<"import", SP, "{", "T", "}", SP, "from", SP, QT, file, QT, SEMI>>
CustomExports(file) == <<"T">>
CustomHandles(file) == file = "./src/t.ts"

\* fields.forEach(field => exportedFields[field] = true): the keys of the
\* object in insertion order
RECURSIVE AddFields(_, _)
AddFields(exported, fields) ==
    IF fields = <<>> THEN exported
    ELSE AddFields(IF \E i \in 1..Len(exported) : exported[i] = Head(fields)
                   THEN exported ELSE Append(exported, Head(fields)),
                   Tail(fields))

(* ------------------------------- Texts -------------------------------- *)

\* `import {<names>} from './<d times ../><name>';` as modifyFile writes it
ImportLine(importLineFields, importLineFrom) ==
    <<"import", SP, "{">> \o importLineFields
        \o <<"}", SP, "from", SP, QT>> \o importLineFrom \o <<QT, SEMI>>

ImportFrom(levelsDeep, name) == <<"./">> \o RepeatUp(levelsDeep) \o <<name>>

GenLine(ids, name) == ImportLine(Join(ids), ImportFrom(1, name))

\* The same statement as a formatter that pads the braces leaves it
SpacedLine(ids, name) ==
    <<"import", SP, "{", SP>> \o Join(ids)
        \o <<SP, "}", SP, "from", SP, QT>> \o ImportFrom(1, name) \o <<QT, SEMI>>

ConflictBlock(sideA, sideB) ==
    <<HEAD, NL>> \o sideA \o <<MID, NL>> \o sideB \o <<TAILMARK>>

CodeLine == <<"f()", SEMI, NL>>

\* How many generated import lines may be stacked above the head of a text
MaxStack == 1

StackLines == {GenLine(<<"A", "B", "C">>, OutputFile) \o <<NL>>,
               GenLine(<<"A">>, PreviousFile) \o <<NL>>}

RECURSIVE Stacks(_)
Stacks(n) ==
    IF n = 0 THEN {<<>>}
    ELSE Stacks(n - 1) \cup {l \o s : l \in StackLines, s \in Stacks(n - 1)}

Heads == {
    <<>>,
    GenLine(<<"A">>, OutputFile) \o <<NL>>,
    SpacedLine(<<"A">>, OutputFile) \o <<NL>>,
    GenLine(<<"A">>, OutputFile) \o <<SP, "// c", NL>>,
    GenLine(<<"A">>, PreviousFile) \o <<NL>>,
    <<NL, SP>> \o GenLine(<<"A">>, OutputFile) \o <<NL>>,
    <<"import", SP, "{", "A", ",", SP, "B", "}", SP, "from", SP, QT>>
        \o ImportFrom(1, OutputFile) \o <<QT, SP, SEMI, NL>>,
    <<"import", SP, "{", "X", "}", SP, "from", SP, QT, "lib", QT, SEMI, NL>>,
    ConflictBlock(GenLine(<<"A">>, OutputFile) \o <<NL>>,
                  GenLine(<<"B">>, OutputFile) \o <<NL>>) \o <<NL>>,
    ConflictBlock(GenLine(<<"A">>, OutputFile) \o <<NL>>,
                  GenLine(<<"B">>, PreviousFile) \o <<NL>>),
    ConflictBlock(GenLine(<<"A">>, OutputFile) \o <<NL>>, CodeLine) \o <<NL>>,
    ConflictBlock(CodeLine \o GenLine(<<"A">>, OutputFile) \o <<NL>>,
                  GenLine(<<"B">>, OutputFile) \o <<NL>>) \o <<NL>>
}

Bodies == {<<>>, <<EXPORT, "C", SEMI, NL>> \o CodeLine}

\* The texts a managed file may hold when a run starts
Texts == {s \o h \o b : s \in Stacks(MaxStack), h \in Heads, b \in Bodies}

DefaultA == <<EXPORT, "A", SEMI, NL, EXPORT, "B", SEMI, NL>>
DefaultB == <<EXPORT, "B", SEMI, NL, EXPORT, "C", SEMI, NL>>
DefaultP == <<EXPORT, "C", SEMI, NL>> \o CodeLine
DefaultQ == CodeLine

(* ---------------------------- Configuration -------------------------- *)

\* pluginOptions: the import and modify roots, whether outputName is a name
\* (imports.js) or null, the paths the filter rejects, whether
\* fileExtensionsCustom is a function, and the files of the disk whose
\* read fails (fs.readFileSync throws).
ImportRoots ==
    {<<>>, <<"./src">>, <<"./src/B.js", "./src/a.js">>, <<"./src", "./src/a.js">>}
ModifyRoots == {<<"./pages">>, <<"pages">>, <<"./src", "./pages">>,
                <<"./q.js", "./pages">>, <<"q.js", "./pages">>}

Configs ==
    [import : ImportRoots, modify : ModifyRoots, output : BOOLEAN,
     rejected : {{}, {"./src/a.js"}}, custom : BOOLEAN,
     unreadable : {{}, {"B"}}]

\* The configurations under which pages/p.js holds every text of Texts;
\* under the others it holds DefaultP
IsBaseConfig(c) ==
    /\ c.rejected = {}
    /\ ~c.custom
    /\ c.unreadable = {}
    /\ c.import # <<"./src/B.js", "./src/a.js">>
    /\ c.modify \in {<<"./pages">>, <<"./src", "./pages">>}

\* filter(file)
filter(c, file) == file \notin c.rejected

(* -------------------------------- State ------------------------------- *)

VARIABLES
    cfg,            \* pluginOptions
    fs,             \* the text of each file of the disk
    out,            \* the text of ./imports.js (empty while it does not exist)
    fs0,            \* fs when the current run started
    run,            \* "first", or "second" when onPreInit runs again
    writes,         \* the files written by fs.writeFileSync in the current run
    pc,             \* where the run is
    phase,          \* whose purge is running: "import", "modify" or "purge"
    queue,          \* the collected files not yet visited in this phase
    importsCode,    \* let importsCode
    exportedFields, \* let exportedFields: its keys in insertion order
    cur,            \* the file being processed
    orig,           \* the text read from it
    code,           \* purgeImportedFieldsCode: code
    changed         \* purgeImportedFieldsCode: changed

vars == <<cfg, fs, out, fs0, run, writes, pc, phase, queue, importsCode,
          exportedFields, cur, orig, code, changed>>

Init ==
    /\ cfg \in Configs
    /\ \E p \in (IF IsBaseConfig(cfg) THEN Texts ELSE {DefaultP}) :
          fs = [f \in DiskFiles |->
                  CASE f = "a" -> DefaultA [] f = "B" -> DefaultB
                    [] f = "p" -> p [] f = "q" -> DefaultQ]
    /\ fs0 = fs
    /\ out = <<>>
    /\ run = "first"
    /\ writes = {}
    /\ pc = "import"
    /\ phase = "import"
    /\ queue = Collect(cfg.import)
    /\ importsCode = <<>>
    /\ exportedFields = <<>>
    /\ cur = ""
    /\ orig = <<>>
    /\ code = <<>>
    /\ changed = FALSE

(* ------------------------------- Actions ------------------------------ *)

\* One pass of the loop of purgeImportedFieldsCode
PurgeIter ==
    /\ pc = "purge"
    /\ changed
    /\ code' = PurgePass(code, cfg.output).code
    /\ changed' = PurgePass(code, cfg.output).changed
    /\ UNCHANGED <<cfg, fs, out, fs0, run, writes, pc, phase, queue,
                   importsCode, exportedFields, cur, orig>>

\* importFile, first branch, up to the call of purgeImportedFieldsCode
ImportJsBegin ==
    /\ pc = "import"
    /\ queue # <<>>
    /\ cfg.output /\ IsJs(Head(queue))
    /\ filter(cfg, Head(queue))
    /\ IF Disk(Head(queue)) \in cfg.unreadable
       THEN /\ pc' = "aborted"
            /\ UNCHANGED <<phase, cur, orig, code, changed>>
       ELSE /\ pc' = "purge"
            /\ phase' = "import"
            /\ cur' = Head(queue)
            /\ orig' = fs[Disk(Head(queue))]
            /\ code' = fs[Disk(Head(queue))]
            /\ changed' = TRUE
    /\ UNCHANGED <<cfg, fs, out, fs0, run, writes, queue, importsCode,
                   exportedFields>>

\* importFile, first branch, from the return of purgeImportedFieldsCode
ImportJsEnd ==
    /\ pc = "purge" /\ phase = "import"
    /\ ~changed
    /\ LET fields == getExportedFields(code)
       IN  /\ importsCode' = importsCode \o <<"import", SP, "{">> \o Join(fields)
                   \o <<"}", SP, "from", SP, QT, cur, QT, SEMI, NL>>
           /\ exportedFields' = AddFields(exportedFields, fields)
    /\ queue' = Tail(queue)
    /\ pc' = "import"
    /\ UNCHANGED <<cfg, fs, out, fs0, run, writes, phase, cur, orig, code,
                   changed>>

\* importFile for a file that is not parsed: rejected by the filter, a
\* plain include, handled by fileExtensionsCustom, or none of these
ImportOther ==
    /\ pc = "import"
    /\ queue # <<>>
    /\ LET file == Head(queue)
       IN  IF cfg.output /\ IsJs(file)
           THEN /\ ~filter(cfg, file)
                /\ UNCHANGED <<importsCode, exportedFields>>
           ELSE IF cfg.output /\ IsOther(file)
           THEN /\ importsCode' = IF filter(cfg, file)
                                  THEN importsCode \o <<"import", SP, QT, file, QT, SEMI, NL>>
                                  ELSE importsCode
                /\ UNCHANGED exportedFields
           ELSE IF cfg.custom /\ filter(cfg, file) /\ CustomHandles(file)
           THEN /\ importsCode' = importsCode \o CustomCode(file) \o <<QT, NL>>
                /\ exportedFields' = AddFields(exportedFields, CustomExports(file))
           ELSE UNCHANGED <<importsCode, exportedFields>>
    /\ queue' = Tail(queue)
    /\ UNCHANGED <<cfg, fs, out, fs0, run, writes, pc, phase, cur, orig, code,
                   changed>>

\* `${importsCode}\nexport {${Object.keys(exportedFields).join(', ')}};\n`
ModuleText(imports, exported) ==
    imports \o <<NL, "export", SP, "{">> \o Join(exported) \o <<"}", SEMI, NL>>

\* The end of the import loop: setFileContentIfDifferent on the generated
\* module when outputName is not null, then the modify roots are collected
WriteOutput ==
    /\ pc = "import"
    /\ queue = <<>>
    /\ LET newContent == ModuleText(importsCode, exportedFields)
       IN  IF cfg.output /\ Trim(out) # Trim(newContent)
           THEN out' = newContent /\ writes' = writes \cup {"out"}
           ELSE UNCHANGED <<out, writes>>
    /\ queue' = Collect(cfg.modify)
    /\ pc' = "modify"
    /\ UNCHANGED <<cfg, fs, fs0, run, phase, importsCode, exportedFields, cur,
                   orig, code, changed>>

\* modifyFile on a file that is not js-like: nothing is done
ModifySkip ==
    /\ pc = "modify"
    /\ queue # <<>>
    /\ ~IsJs(Head(queue))
    /\ queue' = Tail(queue)
    /\ UNCHANGED <<cfg, fs, out, fs0, run, writes, pc, phase, importsCode,
                   exportedFields, cur, orig, code, changed>>

\* modifyFile up to the call of purgeImportedFieldsCode
ModifyBegin ==
    /\ pc = "modify"
    /\ queue # <<>>
    /\ IsJs(Head(queue))
    /\ IF Disk(Head(queue)) \in cfg.unreadable
       THEN /\ pc' = "aborted"
            /\ UNCHANGED <<phase, cur, orig, code, changed>>
       ELSE /\ pc' = "purge"
            /\ phase' = "modify"
            /\ cur' = Head(queue)
            /\ orig' = fs[Disk(Head(queue))]
            /\ code' = fs[Disk(Head(queue))]
            /\ changed' = TRUE
    /\ UNCHANGED <<cfg, fs, out, fs0, run, writes, queue, importsCode,
                   exportedFields>>

\* As importLineFieldsOf, without the filter on the file's own exports
importLineFieldsAll(exported, fields) == exported

\* Object.keys(exportedFields).filter(value => !fields.includes(value))
importLineFieldsOf(exported, fields) ==
    SelectSeq(exported, LAMBDA v : ~\E i \in 1..Len(fields) : fields[i] = v)

\* file.split('/').length - 2
levelsDeepOf(file) == Len(Split(file)) - 2

\* The import statement that modifyFile puts at the head of the file
newImportLineOf(code0, importLineFields, importLineFrom, outputEnabled) ==
    LET firstImportStatement == getFirstImportStatement(code0)
    IN  IF /\ firstImportStatement # <<>>
           /\ containsOurImportStatement(firstImportStatement, outputEnabled)
           /\ regexImportReplacerTest(firstImportStatement)
        THEN ReplaceImport(firstImportStatement, importLineFields, importLineFrom)
        ELSE ImportLine(importLineFields, importLineFrom)

\* setFileContentIfFirstCodeLineIsDifferent(file, newContent, oldContent)
FirstCodeLineDiffers(oldContent, newContent) ==
    getFirstCodeLine(oldContent) # getFirstCodeLine(newContent)

\* modifyFile from the return of purgeImportedFieldsCode
ModifyEnd ==
    /\ pc = "purge" /\ phase = "modify"
    /\ ~changed
    /\ LET purgedCode == code
           fields == getExportedFields(purgedCode)
           levelsDeep == levelsDeepOf(cur)
           importLineFields == Join(importLineFieldsOf(exportedFields, fields))
           importLineFrom == ImportFrom(levelsDeep, OutputFile)
           newCode == IF cfg.output
                      THEN newImportLineOf(orig, importLineFields, importLineFrom,
                                           cfg.output) \o <<NL>> \o purgedCode
                      ELSE purgedCode
       IN  IF cfg.output /\ levelsDeep < 0
           THEN \* '../'.repeat(-1) throws a RangeError
                /\ pc' = "aborted"
                /\ UNCHANGED <<fs, writes, queue>>
           ELSE /\ IF FirstCodeLineDiffers(orig, newCode)
                   THEN /\ fs' = [fs EXCEPT ![Disk(cur)] = newCode]
                        /\ writes' = writes \cup {Disk(cur)}
                   ELSE UNCHANGED <<fs, writes>>
                /\ queue' = Tail(queue)
                /\ pc' = "modify"
    /\ UNCHANGED <<cfg, out, fs0, run, phase, importsCode, exportedFields, cur,
                   orig, code, changed>>

\* The end of the modify loop: onPreInit returns
Finish ==
    /\ pc = "modify"
    /\ queue = <<>>
    /\ pc' = "done"
    /\ UNCHANGED <<cfg, fs, out, fs0, run, writes, phase, queue, importsCode,
                   exportedFields, cur, orig, code, changed>>

\* onPreInit is called again on the file tree as the last run left it
NextRun ==
    /\ pc = "done"
    /\ run = "first"
    /\ run' = "second"
    /\ fs0' = fs
    /\ writes' = {}
    /\ importsCode' = <<>>
    /\ exportedFields' = <<>>
    /\ queue' = Collect(cfg.import)
    /\ pc' = "import"
    /\ UNCHANGED <<cfg, fs, out, phase, cur, orig, code, changed>>

Next ==
    \/ PurgeIter
    \/ ImportJsBegin
    \/ ImportJsEnd
    \/ ImportOther
    \/ WriteOutput
    \/ ModifySkip
    \/ ModifyBegin
    \/ ModifyEnd
    \/ Finish
    \/ NextRun

Spec == Init /\ [][Next]_vars

(* ------------------- purgeImportedFieldsCode alone -------------------- *)

\* purgeImportedFieldsCode returns its code
PurgeReturn ==
    /\ pc = "purge" /\ phase = "purge"
    /\ ~changed
    /\ pc' = "returned"
    /\ UNCHANGED <<cfg, fs, out, fs0, run, writes, phase, queue, importsCode,
                   exportedFields, cur, orig, code, changed>>

\* purgeImportedFieldsCode is called on any text
InitPurge ==
    /\ cfg \in {c \in Configs :
                    IsBaseConfig(c) /\ c.import = <<>> /\ c.modify = <<"./pages">>}
    /\ orig \in Texts
    /\ code = orig
    /\ changed = TRUE
    /\ pc = "purge"
    /\ phase = "purge"
    /\ fs = [f \in DiskFiles |-> <<>>]
    /\ fs0 = fs
    /\ out = <<>>
    /\ run = "first"
    /\ writes = {}
    /\ queue = <<>>
    /\ importsCode = <<>>
    /\ exportedFields = <<>>
    /\ cur = ""

NextPurge == PurgeIter \/ PurgeReturn

SpecPurge == InitPurge /\ [][NextPurge]_vars

(* ====================================================================== *)
(* Properties                                                             *)
(* ====================================================================== *)

\* Reading a text back: the names between the first "{" and the next "}",
\* the tokens between the first two quotes, the rest of the first statement's
\* physical line, and the text below that line
BraceNames(t) ==
    LET open == IndexOf(t, "{")
        close == IndexOfFrom(t, "}", open)
    IN  IF open < 0 \/ close < 0 THEN <<>>
        ELSE SelectSeq(Substring(t, open + 1, close),
                       LAMBDA x : x \notin {",", SP, NL})

QuotedPath(t) ==
    LET q1 == IndexOf(t, QT)
        q2 == IndexOfFrom(t, QT, q1 + 1)
    IN  IF q1 < 0 \/ q2 < 0 THEN <<>> ELSE Substring(t, q1 + 1, q2)

LineTail(t, stmt) ==
    LET nl == IndexOfFrom(t, NL, Len(stmt))
    IN  Substring(t, Len(stmt), IF nl < 0 THEN Len(t) ELSE nl)

BelowFirstLine(t, stmt) ==
    LET nl == IndexOfFrom(t, NL, Len(stmt))
    IN  IF nl < 0 THEN <<>> ELSE SubstringFrom(t, nl + 1)

IsSuffix(s, t) == Len(s) <= Len(t) /\ SubstringFrom(t, Len(t) - Len(s)) = s

SeqToSet(q) == {q[i] : i \in 1..Len(q)}

\* A statement that names the output module, under its current name or
\* under a current or previous name
NamesCurrentModule(stmt) == Includes(stmt, <<"./", OutputFile, QT, SEMI>>)
NamesOutputModule(stmt) ==
    NamesCurrentModule(stmt) \/ Includes(stmt, <<"./", PreviousFile, QT, SEMI>>)

\* The js-like files under the modify roots, and the text of one on disk
\* now and when the run started
ModifyTargets == {f \in SeqToSet(Collect(cfg.modify)) : IsJs(f)}
Now(f) == fs[Disk(f)]
Before(f) == fs0[Disk(f)]

\* The export list and the imported paths of the generated module on disk
ModuleExports(t) == BraceNames(SubstringFrom(t, IndexOf(t, "export")))
ModuleFiles(t) == SelectSeq(t, LAMBDA x : x \in Paths)

RunCompleted == pc = "done" /\ cfg.output

(* C1: the second of two runs in a row on the same file tree writes no     *)
(* file, neither the generated module nor a modify target.                 *)
C1_SecondRunWritesNothing == run = "second" => writes = {}

(* C2: with output enabled, the import statement at the head of a js-like  *)
(* modify target lists the names the generated module exports, minus the   *)
(* names the file itself exports, in the module's order; so it lists no    *)
(* name that the file exports.                                             *)
C2_SelfExclusion ==
    RunCompleted =>
        \A f \in ModifyTargets :
            LET own == SeqToSet(getExportedFields(Now(f)))
                listed == BraceNames(getFirstImportStatement(Now(f)))
            IN  /\ listed = SelectSeq(ModuleExports(out), LAMBDA x : x \notin own)
                /\ SeqToSet(listed) \cap own = {}

C2_Witness ==
    /\ RunCompleted
    /\ "./pages/p.js" \in ModifyTargets
    /\ "p" \in writes
    /\ "C" \in SeqToSet(getExportedFields(fs["p"]))
    /\ "C" \in SeqToSet(ModuleExports(out))
    /\ BraceNames(getFirstImportStatement(fs["p"])) = <<"A", "B">>

\* The depth of a file: its path segments below the project root, minus 1
Depth(file) ==
    Len(SelectSeq(Split(file), LAMBDA seg : seg # ".")) - 1

(* C3: the import path given to a modify target at depth d (its path       *)
(* segments below the project root, minus 1) is './' followed by d times   *)
(* '../' and the output file name.                                         *)
C3_PathDepth ==
    RunCompleted =>
        \A f \in ModifyTargets :
            QuotedPath(getFirstImportStatement(Now(f)))
                = ImportFrom(Depth(f), OutputFile)

(* C4: no error raised while one file is processed aborts the run.         *)
C4_RunNeverAborts == pc # "aborted"

\* t is t0 with one import statement of the current module and a line
\* break put in front of it
Prepended(t, t0) ==
    LET stmt == getFirstImportStatement(t)
    IN  /\ NamesCurrentModule(stmt)
        /\ t = stmt \o <<NL>> \o t0

\* The first statement of t0 was replaced: t starts with an import
\* statement of the current module, and below its line comes text that
\* followed the old statement
Replaced(t, t0) ==
    LET old == getFirstImportStatement(t0)
        new == getFirstImportStatement(t)
    IN  /\ NamesCurrentModule(new)
        /\ IsSuffix(BelowFirstLine(t, new), SubstringFrom(t0, Len(old)))

ConflictSides(t) ==
    LET a0 == IndexOf(t, NL) + 1
        a1 == IndexOfFrom(t, MID, a0)
        b0 == IndexOfFrom(t, NL, a1) + 1
        b1 == IndexOfFrom(t, TAILMARK, b0)
    IN  IF StartsWith(t, HEAD) /\ a0 >= 1 /\ a1 >= 0 /\ b0 >= 1 /\ b1 >= 0
        THEN <<Substring(t, a0, a1), Substring(t, b0, b1)>>
        ELSE <<>>

StartsWithOurConflict(t0) ==
    LET sides == ConflictSides(TrimStart(t0))
    IN  /\ sides # <<>>
        /\ NamesOutputModule(sides[1])
        /\ NamesOutputModule(sides[2])

OrderKeyBefore(a, b) ==
    LET x == [i \in 1..Len(Split(a)) |-> CodeUnitRank(toLowerCase(Split(a)[i]))]
        y == [i \in 1..Len(Split(b)) |-> CodeUnitRank(toLowerCase(Split(b)[i]))]
    IN  \/ \E k \in 1..Len(x) :
              /\ k <= Len(y)
              /\ x[k] < y[k]
              /\ \A j \in 1..(k - 1) : x[j] = y[j]
        \/ Len(x) < Len(y) /\ \A j \in 1..Len(x) : x[j] = y[j]

\* The import-target files that get a statement: accepted by the filter
\* and js-like, plain include, or handled by the custom handler
Accepted(file) ==
    /\ filter(cfg, file)
    /\ IsJs(file) \/ IsOther(file) \/ (cfg.custom /\ CustomHandles(file))

IsOrdered(q) == \A i, j \in 1..Len(q) : i < j => OrderKeyBefore(q[i], q[j])

\* The names the import statements of the module list, in order, each once
RECURSIVE ImportedNames(_)
ImportedNames(t) ==
    LET e == IndexOf(t, NL)
    IN  IF e <= 0 THEN <<>>
        ELSE AddFields(BraceNames(Substring(t, 0, e)),
                       ImportedNames(SubstringFrom(t, e + 1)))

FirstSeen(q) == AddFields(<<>>, q)

\* Statements, a blank line, one export statement
ModuleShape(t) ==
    LET e == IndexOf(t, "export")
        n == Len(ModuleFiles(t))
    IN  /\ e >= 1
        /\ t[e] = NL
        /\ e >= 2 => t[e - 1] = NL
        /\ Cardinality({i \in 1..e : t[i] = NL}) = n + 1
        /\ Cardinality({i \in 1..Len(t) : t[i] = "export"}) = 1

ModuleNamesOnce(t) ==
    /\ \A i, j \in 1..Len(ModuleExports(t)) :
           ModuleExports(t)[i] = ModuleExports(t)[j] => i = j
    /\ ModuleExports(t) = FirstSeen(ImportedNames(Substring(t, 0, IndexOf(t, "export"))))

RECURSIVE GroupedByRoot(_, _)
GroupedByRoot(files, roots) ==
    IF roots = <<>> THEN files = <<>>
    ELSE LET mine == {f \in getAllFiles(Head(roots)) : Accepted(f)}
             n == Cardinality(mine)
         IN  /\ Len(files) >= n
             /\ SeqToSet(SubSeq(files, 1, n)) = mine
             /\ IsOrdered(SubSeq(files, 1, n))
             /\ GroupedByRoot(SubSeq(files, n + 1, Len(files)), Tail(roots))

C7_PurgeTerminates ==
    (pc = "purge" /\ changed) =>
        PurgePass(code, cfg.output) # [code |-> code, changed |-> TRUE]

\* The leading statement of a side of a conflict block is a generated import
LeadingStatementIsOurs(side) ==
    LET stmt == getFirstImportStatement(side)
    IN  IF cfg.output THEN NamesOutputModule(stmt)
        ELSE Includes(stmt, <<"./", PreviousFile, QT, SEMI>>)

\* The text that follows the line of the >>>>>>> marker
AfterBlock(t) ==
    LET mark == IndexOf(t, TAILMARK)
        nl == IndexOfFrom(t, NL, mark)
    IN  IF nl < 0 THEN <<>> ELSE SubstringFrom(t, nl + 1)

(* C8: a leading conflict block is collapsed exactly when the leading      *)
(* statement of both of its sides is a generated import: then the whole    *)
(* block is removed and the purge goes on with the text after it; else the *)
(* block and its content are left unchanged.                               *)
C8_ConflictCollapse ==
    (pc = "purge" /\ changed /\ ConflictSides(TrimStart(code)) # <<>>) =>
        LET t == TrimStart(code)
            sides == ConflictSides(t)
            after == PurgePass(code, cfg.output).code
        IN  IF LeadingStatementIsOurs(sides[1]) /\ LeadingStatementIsOurs(sides[2])
            THEN after = AfterBlock(t)
            ELSE after = code

(* C9: when the first import statement of the original text is a generated *)
(* one of the three-part shape, the written file keeps its first and third *)
(* part, and what followed the statement on its physical line still        *)
(* follows the new statement.                                              *)
C9_LineTailKept ==
    RunCompleted =>
        \A f \in ModifyTargets :
            LET old == getFirstImportStatement(Before(f))
                new == getFirstImportStatement(Now(f))
            IN  (NamesOutputModule(old) /\ regexImportReplacerTest(old)) =>
                    LET g == regexImportReplacerGroups(old)
                    IN  /\ Substring(new, 0, Len(g.p1)) = g.p1
                        /\ IsSuffix(g.p3, new)
                        /\ LineTail(Now(f), new) = LineTail(Before(f), old)

(* C10: after a completed run with output enabled a js-like modify target  *)
(* is the current generated import statement followed by its purged text:  *)
(* no generated import line and no conflict block that purge removes is    *)
(* left directly below the statement at its head.                          *)
C10_NothingStaleBelowHead ==
    RunCompleted =>
        \A f \in ModifyTargets :
            LET head == getFirstImportStatement(Now(f))
            IN  /\ Includes(head, <<"./", OutputFile, QT>>)
                /\ ~PurgePass(BelowFirstLine(Now(f), head), cfg.output).changed

=============================================================================
